---- MODULE Spec2Model ----
(***************************************************************************)
(* A model of the knowledge graph (knowledge_graph.py), of the embedding   *)
(* index (vector_embedding.py) and of the two threads of the desktop shell *)
(* (knowledge_base_gui.py) that share them.                                *)
(*                                                                         *)
(* Strings that the code inspects (lower(), substring tests) are sequences *)
(* of one-character strings; attribute values are tagged records; a float  *)
(* confidence c is the integer 10*c; a datetime is an integer tick of the  *)
(* wall clock.                                                             *)
(***************************************************************************)
EXTENDS Integers, Sequences, FiniteSets, TLC

VARIABLES
    entities,       \* KnowledgeGraph.entities: dict id -> Entity, in insertion order
    relationships,  \* KnowledgeGraph.relationships: list of Relationship
    graph,          \* KnowledgeGraph.graph: the networkx MultiDiGraph
    clock,          \* the wall clock read by datetime.now()
    ret,            \* outcome of the most recent call: what it returned or raised
    vectorizer,     \* VectorEmbedder.vectorizer: whether fitted, and its vocabulary
    embeddings,     \* VectorEmbedder.embeddings: dict id -> vector, in insertion order
    entity_texts,   \* VectorEmbedder.entity_texts: dict id -> normalized text
    dialog,         \* the ProgressDialog of the background run: grab, cancelled
    worker,         \* the thread of _process_file_background: position and locals
    gui             \* the Tk main thread inside a handler: position and locals

kgvars == <<entities, relationships, graph, clock, ret>>
embvars == <<vectorizer, embeddings, entity_texts>>
threadvars == <<dialog, worker, gui>>
vars == <<kgvars, embvars, threadvars>>

----------------------------------------------------------------------------
(* Bounds of the model *)

\* longest relationship list explored
MaxRels == 3
\* last tick of the wall clock
MaxClock == 1
\* largest max_depth passed to get_connected_entities
MaxDepth == 2
\* most relationships of a graph that is queried
MaxQueryRels == 2

----------------------------------------------------------------------------
(* Values *)

None == [tag |-> "none"]
Str(s) == [tag |-> "str", v |-> s]
List(l) == [tag |-> "list", v |-> l]
Num(n) == [tag |-> "num", v |-> n]
EmptyDict == <<>>

\* dict.get(key, default)
Get(d, k, default) == IF k \in DOMAIN d THEN d[k] ELSE default

\* dict.update(other)
DictUpdate(d, other) ==
    [k \in (DOMAIN d) \cup (DOMAIN other) |-> IF k \in DOMAIN other THEN other[k] ELSE d[k]]

\* datetime.isoformat() and datetime.fromisoformat()
isoformat(t) == <<"iso", t>>
fromisoformat(s) == s[2]

\* the keys of an ordered dict that is kept as a sequence of records with an id
Keys(es) == {es[i].id : i \in 1..Len(es)}
Lookup(es, id) == es[CHOOSE i \in 1..Len(es) : es[i].id = id]
\* d[id] = e: an existing key keeps its position, a new key goes last
DictSet(es, e) ==
    IF e.id \in Keys(es)
    THEN [i \in 1..Len(es) |-> IF es[i].id = e.id THEN e ELSE es[i]]
    ELSE Append(es, e)
\* del d[id]
DictDel(es, id) == SelectSeq(es, LAMBDA e : e.id # id)

----------------------------------------------------------------------------
(* Entity and Relationship *)

\* Entity.__init__
Entity(entity_id, entity_type, attributes, now) ==
    [id |-> entity_id, type |-> entity_type, attributes |-> attributes,
     created_at |-> now, updated_at |-> now]

\* update_attributes that puts the new map in the place of the old one
update_attributes_replacing(e, new_attributes, now) ==
    [e EXCEPT !.attributes = new_attributes, !.updated_at = now]

\* Entity.update_attributes
update_attributes(e, new_attributes, now) ==
    [e EXCEPT !.attributes = DictUpdate(e.attributes, new_attributes),
              !.updated_at = now]

\* Entity.to_dict
EntityToDict(e) ==
    [id |-> e.id, type |-> e.type, attributes |-> e.attributes,
     created_at |-> isoformat(e.created_at), updated_at |-> isoformat(e.updated_at)]

EntityDictKeys == {"id", "type", "attributes", "created_at", "updated_at"}

\* Entity.from_dict that loses the attribute map
EntityFromDictNoAttributes(data) ==
    [id |-> data.id, type |-> data.type, attributes |-> EmptyDict,
     created_at |-> fromisoformat(data.created_at),
     updated_at |-> fromisoformat(data.updated_at)]

\* Entity.from_dict, for a record that has every key it reads
EntityFromDict(data) ==
    [id |-> data.id, type |-> data.type, attributes |-> data.attributes,
     created_at |-> fromisoformat(data.created_at),
     updated_at |-> fromisoformat(data.updated_at)]

\* Relationship.__init__ ("attributes or {}")
Relationship(source_id, target_id, relation_type, attributes, confidence, now) ==
    [source_id |-> source_id, target_id |-> target_id, type |-> relation_type,
     attributes |-> IF attributes = None \/ attributes = EmptyDict THEN EmptyDict ELSE attributes,
     confidence |-> confidence, created_at |-> now]

\* Relationship.to_dict
RelToDict(r) ==
    [source_id |-> r.source_id, target_id |-> r.target_id, type |-> r.type,
     attributes |-> r.attributes, confidence |-> r.confidence,
     created_at |-> isoformat(r.created_at)]

RelDictKeys == {"source_id", "target_id", "type", "attributes", "confidence", "created_at"}

\* Relationship.from_dict, for a record that has every key it reads
RelFromDict(data) ==
    [source_id |-> data.source_id, target_id |-> data.target_id, type |-> data.type,
     attributes |-> IF data.attributes = None \/ data.attributes = EmptyDict
                    THEN EmptyDict ELSE data.attributes,
     confidence |-> data.confidence, created_at |-> fromisoformat(data.created_at)]

----------------------------------------------------------------------------
(* networkx.MultiDiGraph: nodes is a map node -> attribute dict, edges is  *)
(* the set of [u, v, key, data]; key tells parallel edges apart.           *)

EmptyGraph == [nodes |-> <<>>, edges |-> {}]

\* MultiDiGraph.add_node(n, **attr)
add_node(g, n, attr) ==
    [g EXCEPT !.nodes =
        [m \in (DOMAIN g.nodes) \cup {n} |->
            IF m = n
            THEN (IF n \in DOMAIN g.nodes THEN DictUpdate(g.nodes[n], attr) ELSE attr)
            ELSE g.nodes[m]]]

\* MultiDiGraph.new_edge_key: the lowest unused integer from the number of parallel edges on
NewEdgeKey(g, u, v) ==
    LET used == {e.key : e \in {x \in g.edges : x.u = u /\ x.v = v}}
        n == Cardinality(used)
    IN CHOOSE k \in n..(2 * n) : k \notin used /\ \A j \in n..(2 * n) : j \notin used => k <= j

\* add_edge of a simple DiGraph: the edge takes the place of the one from u to v
add_edge_simple(g, u, v, attr) ==
    LET withNodes ==
            [m \in (DOMAIN g.nodes) \cup {u, v} |->
                IF m \in DOMAIN g.nodes THEN g.nodes[m] ELSE EmptyDict]
    IN [nodes |-> withNodes,
        edges |-> {e \in g.edges : ~(e.u = u /\ e.v = v)}
                  \cup {[u |-> u, v |-> v, key |-> 0, data |-> attr]}]

\* MultiDiGraph.add_edge(u, v, **attr): an endpoint that is no node becomes one
add_edge(g, u, v, attr) ==
    LET withNodes ==
            [m \in (DOMAIN g.nodes) \cup {u, v} |->
                IF m \in DOMAIN g.nodes THEN g.nodes[m] ELSE EmptyDict]
    IN [nodes |-> withNodes,
        edges |-> g.edges \cup {[u |-> u, v |-> v, key |-> NewEdgeKey(g, u, v), data |-> attr]}]

\* remove_node that leaves the edges arriving at the node in place
remove_node_keeping_in_edges(g, n) ==
    [nodes |-> [m \in (DOMAIN g.nodes) \ {n} |-> g.nodes[m]],
     edges |-> {e \in g.edges : e.u # n}]

\* MultiDiGraph.remove_node(n): the node and every edge at it
remove_node(g, n) ==
    [nodes |-> [m \in (DOMAIN g.nodes) \ {n} |-> g.nodes[m]],
     edges |-> {e \in g.edges : e.u # n /\ e.v # n}]

successors(g, n) == {e.v : e \in {x \in g.edges : x.u = n}}
predecessors(g, n) == {e.u : e \in {x \in g.edges : x.v = n}}

----------------------------------------------------------------------------
(* Strings *)

EmptyStr == Str(<<>>)

LowerChar(c) ==
    CASE c = "A" -> "a" [] c = "B" -> "b" [] c = "C" -> "c" [] c = "E" -> "e"
      [] c = "L" -> "l" [] c = "O" -> "o" [] c = "R" -> "r" [] c = "D" -> "d"
      [] c = "J" -> "j" [] c = "S" -> "s" [] c = "N" -> "n"
      [] OTHER -> c

\* str.lower()
Lower(s) == [i \in 1..Len(s) |-> LowerChar(s[i])]

\* sub in s, for two strings
Contains(sub, s) ==
    \E i \in 0..(Len(s) - Len(sub)) : SubSeq(s, i + 1, i + Len(sub)) = sub

\* email.split('@')[1], for a string that holds an '@'
DomainOf(s) ==
    LET i == CHOOSE k \in 1..Len(s) : s[k] = "@" /\ \A m \in 1..(k - 1) : s[m] # "@"
        rest == SubSeq(s, i + 1, Len(s))
        ats == {k \in 1..Len(rest) : rest[k] = "@"}
        j == IF ats = {} THEN Len(rest) + 1
             ELSE CHOOSE k \in ats : \A m \in ats : k <= m
    IN SubSeq(rest, 1, j - 1)

\* bool(value)
Truthy(x) ==
    CASE x.tag = "str" -> Len(x.v) > 0
      [] x.tag = "list" -> Len(x.v) > 0
      [] x.tag = "num" -> x.v # 0
      [] x.tag = "dict" -> DOMAIN x.v # {}
      [] OTHER -> FALSE

----------------------------------------------------------------------------
(* The inference rules. A check answers "true", "false" or "error"; "error" *)
(* is an AttributeError or TypeError raised by the expression.             *)

\* KnowledgeGraph._check_employment_relationship
check_employment_relationship(person, organization) ==
    LET org_name == Get(organization.attributes, "name", EmptyStr)
        person_company == Get(person.attributes, "department", EmptyStr)
    IN IF org_name.tag # "str" \/ person_company.tag # "str" THEN "error"
       ELSE IF Len(org_name.v) > 0 /\ Len(person_company.v) > 0
               /\ Contains(Lower(org_name.v), Lower(person_company.v))
            THEN "true" ELSE "false"

\* KnowledgeGraph._check_colleague_relationship
check_colleague_relationship(person1, person2) ==
    LET dept1 == Get(person1.attributes, "department", EmptyStr)
        dept2 == Get(person2.attributes, "department", EmptyStr)
    IN IF dept1.tag # "str" \/ dept2.tag # "str" THEN "error"
       ELSE IF Lower(dept1.v) = Lower(dept2.v) /\ Lower(dept1.v) # <<>>
            THEN "true" ELSE "false"

\* KnowledgeGraph._check_project_involvement
check_project_involvement(entity1, entity2) ==
    IF entity1.type = "person" /\ entity2.type = "project"
    THEN LET assignee == Get(entity2.attributes, "assignee", EmptyStr)
             person_name == Get(entity1.attributes, "name", EmptyStr)
         IN IF assignee.tag # "str" \/ person_name.tag # "str" THEN "error"
            ELSE IF Contains(Lower(person_name.v), Lower(assignee.v))
                 THEN "true" ELSE "false"
    ELSE "false"

\* the items of "for email in emails": the characters of a string, the items of a list
EmailItems(emails) ==
    CASE emails.tag = "str" -> [i \in 1..Len(emails.v) |-> Str(<<emails.v[i]>>)]
      [] emails.tag = "list" -> emails.v
      [] OTHER -> <<>>

\* whether "'@' in email ... email.split('@')" raises for one item
EmailItemRaises(item) ==
    CASE item.tag = "str" -> FALSE
      [] item.tag = "list" -> \E i \in 1..Len(item.v) : item.v[i] = Str(<<"@">>)
      [] item.tag = "dict" -> FALSE
      [] OTHER -> TRUE

\* whether building the domain set of one emails value raises
EmailsRaise(emails) ==
    \/ emails.tag = "num"
    \/ \E i \in 1..Len(EmailItems(emails)) : EmailItemRaises(EmailItems(emails)[i])

\* set(email.split('@')[1] for email in emails if '@' in email)
EmailDomains(emails) ==
    LET items == EmailItems(emails)
    IN {DomainOf(items[i].v) :
            i \in {k \in 1..Len(items) : items[k].tag = "str" /\ Contains(<<"@">>, items[k].v)}}

\* the "Email domain relationships" rule of _detect_relationship_between
check_same_domain(entity1, entity2) ==
    LET emails1 == Get(entity1.attributes, "emails", List(<<>>))
        emails2 == Get(entity2.attributes, "emails", List(<<>>))
    IN IF Truthy(emails1) /\ Truthy(emails2)
       THEN IF EmailsRaise(emails1) \/ EmailsRaise(emails2) THEN "error"
            ELSE IF EmailDomains(emails1) \cap EmailDomains(emails2) # {}
                 THEN "true" ELSE "false"
       ELSE "false"

\* KnowledgeGraph._detect_relationship_between: the proposals <<type, confidence>>
\* in the order of the rules, or err when a rule raises
detect_relationship_between(entity1, entity2) ==
    LET emp == IF entity1.type = "person" /\ entity2.type = "organization"
               THEN check_employment_relationship(entity1, entity2) ELSE "false"
        col == IF entity1.type = "person" /\ entity2.type = "person"
               THEN check_colleague_relationship(entity1, entity2) ELSE "false"
        prj == IF "project" \in {entity1.type, entity2.type}
               THEN check_project_involvement(entity1, entity2) ELSE "false"
        eml == check_same_domain(entity1, entity2)
    IN [err |-> "error" \in {emp, col, prj, eml},
        rels |-> (IF entity1.type = entity2.type THEN << <<"similar_to", 3>> >> ELSE <<>>)
                 \o (IF emp = "true" THEN << <<"works_for", 8>> >> ELSE <<>>)
                 \o (IF col = "true" THEN << <<"colleague_of", 7>> >> ELSE <<>>)
                 \o (IF prj = "true" THEN << <<"involved_in", 6>> >> ELSE <<>>)
                 \o (IF eml = "true" THEN << <<"same_domain", 5>> >> ELSE <<>>)]

----------------------------------------------------------------------------
(* KnowledgeGraph: its operations as functions of the instance             *)
(* kg = [entities, relationships, graph]. Each answers [err, kg, val]:     *)
(* the exception raised ("none" when it returns), the instance afterwards  *)
(* and the value returned.                                                 *)

\* KnowledgeGraph.__init__
EmptyKG == [entities |-> <<>>, relationships |-> <<>>, graph |-> EmptyGraph]

\* the id test of add_entity: entity_data.get('id'), "if not entity_id"
HasId(entity_data) == "id" \in DOMAIN entity_data /\ entity_data.id # ""

\* the assignment self.entities[entity_id] = entity of add_entity
StoreEntity(es, entity) == DictSet(es, entity)

\* KnowledgeGraph.add_entity
AddEntityOp(kg, entity_data, now) ==
    IF ~HasId(entity_data)
    THEN [err |-> "MissingId", kg |-> kg, val |-> None]
    ELSE LET entity == Entity(entity_data.id,
                              Get(entity_data, "type", "unknown"),
                              Get(entity_data, "attributes", EmptyDict), now)
         IN [err |-> "none",
             kg |-> [kg EXCEPT !.entities = StoreEntity(@, entity),
                               !.graph = add_node(@, entity.id, EntityToDict(entity))],
             val |-> entity]

\* update_entity that creates the entity it does not find
UpdateEntityOpCreating(kg, entity_id, new_attributes, now) ==
    LET entity == IF entity_id \in Keys(kg.entities)
                  THEN update_attributes(Lookup(kg.entities, entity_id), new_attributes, now)
                  ELSE Entity(entity_id, "unknown", new_attributes, now)
    IN [err |-> "none",
        kg |-> [kg EXCEPT !.entities = DictSet(@, entity),
                          !.graph = add_node(@, entity_id, EntityToDict(entity))],
        val |-> None]

\* KnowledgeGraph.update_entity
UpdateEntityOp(kg, entity_id, new_attributes, now) ==
    IF entity_id \notin Keys(kg.entities)
    THEN [err |-> "NotFound", kg |-> kg, val |-> None]
    ELSE LET entity == update_attributes(Lookup(kg.entities, entity_id), new_attributes, now)
         IN [err |-> "none",
             kg |-> [kg EXCEPT !.entities = DictSet(@, entity),
                               !.graph = add_node(@, entity_id, EntityToDict(entity))],
             val |-> None]

\* remove_entity dropping only the relationships that leave entity_id
WithoutEntityAsSource(rels, entity_id) ==
    SelectSeq(rels, LAMBDA rel : rel.source_id # entity_id)

\* the list comprehension of remove_entity: the relationships that do not touch entity_id
WithoutEntity(rels, entity_id) ==
    SelectSeq(rels, LAMBDA rel : rel.source_id # entity_id /\ rel.target_id # entity_id)

\* KnowledgeGraph.remove_entity
RemoveEntityOp(kg, entity_id) ==
    IF entity_id \notin Keys(kg.entities)
    THEN [err |-> "NotFound", kg |-> kg, val |-> None]
    ELSE [err |-> "none",
          kg |-> [entities |-> DictDel(kg.entities, entity_id),
                  graph |-> remove_node(kg.graph, entity_id),
                  relationships |-> WithoutEntity(kg.relationships, entity_id)],
          val |-> None]

\* add_relationship testing the source alone
EndpointsPresentSourceOnly(es, source_id, target_id) == source_id \in Keys(es)

\* the two membership tests that open add_relationship
EndpointsPresent(es, source_id, target_id) ==
    source_id \in Keys(es) /\ target_id \in Keys(es)

\* KnowledgeGraph.add_relationship
AddRelationshipOp(kg, source_id, target_id, relation_type, attributes, confidence, now) ==
    IF ~EndpointsPresent(kg.entities, source_id, target_id)
    THEN [err |-> "NotFound", kg |-> kg, val |-> None]
    ELSE LET relationship ==
                 Relationship(source_id, target_id, relation_type, attributes, confidence, now)
         IN [err |-> "none",
             kg |-> [kg EXCEPT !.relationships = Append(@, relationship),
                               !.graph = add_edge(@, source_id, target_id,
                                                   RelToDict(relationship))],
             val |-> relationship]

\* the pairs (i, j), i < j, of "for i, entity1 in enumerate(entities_list):
\* for entity2 in entities_list[i+1:]", in the order the loops visit them
RECURSIVE PairsFrom(_, _, _)
PairsFrom(i, j, n) ==
    IF i >= n THEN <<>>
    ELSE IF j > n THEN PairsFrom(i + 1, i + 2, n)
    ELSE << <<i, j>> >> \o PairsFrom(i, j + 1, n)

PairList(n) == PairsFrom(1, 2, n)

\* the loop "for rel_type, confidence in relationships" of auto_detect_relationships:
\* st = [kg, count]; a KnowledgeGraphError of add_relationship is swallowed
RECURSIVE AddProposals(_, _, _, _, _, _)
AddProposals(st, id1, id2, proposals, k, now) ==
    IF k > Len(proposals) THEN st
    ELSE LET r == AddRelationshipOp(st.kg, id1, id2, proposals[k][1], None,
                                    proposals[k][2], now)
         IN AddProposals(IF r.err = "none"
                         THEN [kg |-> r.kg, count |-> st.count + 1]
                         ELSE st,
                         id1, id2, proposals, k + 1, now)

\* the pair loops of auto_detect_relationships from pair k on; an exception of
\* _detect_relationship_between ends the scan with what was added so far
RECURSIVE ScanPairs(_, _, _, _, _)
ScanPairs(entities_list, pairs, k, st, now) ==
    IF k > Len(pairs) THEN [err |-> "none", kg |-> st.kg, val |-> st.count]
    ELSE LET entity1 == entities_list[pairs[k][1]]
             entity2 == entities_list[pairs[k][2]]
             d == detect_relationship_between(entity1, entity2)
         IN IF d.err THEN [err |-> "AttributeError", kg |-> st.kg, val |-> None]
            ELSE ScanPairs(entities_list, pairs, k + 1,
                           AddProposals(st, entity1.id, entity2.id, d.rels, 1, now), now)

\* KnowledgeGraph.auto_detect_relationships
AutoDetectOp(kg, now) ==
    ScanPairs(kg.entities, PairList(Len(kg.entities)), 1, [kg |-> kg, count |-> 0], now)

\* the loop of get_connected_entities, with depth iterations left
RECURSIVE Expand(_, _, _, _)
Expand(g, connected, current_level, depth) ==
    IF depth = 0 THEN connected
    ELSE LET next_level == UNION {successors(g, n) \cup predecessors(g, n) : n \in current_level}
             connected2 == connected \cup next_level
             current2 == next_level \ connected2
         IN IF current2 = {} THEN connected2
            ELSE Expand(g, connected2, current2, depth - 1)

\* KnowledgeGraph.get_connected_entities
get_connected_entities(kg, entity_id, max_depth) ==
    IF entity_id \notin Keys(kg.entities) THEN {}
    ELSE Expand(kg.graph, {}, {entity_id}, max_depth)

\* the members of a finite set as a list, in an order of the model's own
RECURSIVE SeqOf(_)
SeqOf(S) ==
    IF S = {} THEN <<>>
    ELSE LET x == CHOOSE y \in S : TRUE
         IN <<x>> \o SeqOf(S \ {x})

\* "if not relation_type or edge_data.get('type') == relation_type"; "" stands
\* for a relation_type of None
TypeMatches(edge_data, relation_type) ==
    relation_type = "" \/ Get(edge_data, "type", "") = relation_type

\* KnowledgeGraph.find_relationships: the edges leaving entity_id, then the edges
\* arriving at it, each read back with Relationship.from_dict. Within a group
\* the list follows the adjacency order, of which the model keeps the content
\* and not the order.
FindRelationshipsOp(kg, entity_id, relation_type) ==
    IF entity_id \notin Keys(kg.entities)
    THEN [err |-> "none", kg |-> kg, val |-> <<>>]
    ELSE LET outgoing == SeqOf({e \in kg.graph.edges :
                                   e.u = entity_id /\ TypeMatches(e.data, relation_type)})
             incoming == SeqOf({e \in kg.graph.edges :
                                   e.v = entity_id /\ TypeMatches(e.data, relation_type)})
             found == outgoing \o incoming
         IN [err |-> "none", kg |-> kg,
             val |-> [i \in 1..Len(found) |-> RelFromDict(found[i].data)]]

\* networkx.density of a directed graph, as the fraction num/den
density(g) ==
    LET n == Cardinality(DOMAIN g.nodes)
        m == Cardinality(g.edges)
    IN IF m = 0 \/ n <= 1 THEN [num |-> 0, den |-> 1]
       ELSE [num |-> m, den |-> n * (n - 1)]

\* the nodes joined to the set S by edges taken in either direction
RECURSIVE WeakClosure(_, _)
WeakClosure(g, S) ==
    LET S2 == S \cup UNION {successors(g, n) \cup predecessors(g, n) : n \in S}
    IN IF S2 = S THEN S ELSE WeakClosure(g, S2)

\* networkx.number_weakly_connected_components
number_weakly_connected_components(g) ==
    Cardinality({WeakClosure(g, {n}) : n \in DOMAIN g.nodes})

\* the per-type counting loops of get_graph_stats
TypeCounts(items) ==
    [t \in {items[i].type : i \in 1..Len(items)} |->
        Cardinality({i \in 1..Len(items) : items[i].type = t})]

\* KnowledgeGraph.get_graph_stats
get_graph_stats(kg) ==
    [total_entities |-> Len(kg.entities),
     total_relationships |-> Len(kg.relationships),
     entity_types |-> TypeCounts(kg.entities),
     relationship_types |-> TypeCounts(kg.relationships),
     graph_density |-> density(kg.graph),
     connected_components |-> number_weakly_connected_components(kg.graph)]

\* KnowledgeGraph.export_to_dict
export_to_dict(kg, now) ==
    [entities |-> [i \in 1..Len(kg.entities) |-> EntityToDict(kg.entities[i])],
     relationships |-> [i \in 1..Len(kg.relationships) |-> RelToDict(kg.relationships[i])],
     metadata |-> [created_at |-> isoformat(now), stats |-> get_graph_stats(kg)]]

\* the "Import entities" loop of import_from_dict from item k on; a record that
\* lacks a key Entity.from_dict reads raises KeyError and ends the import there
RECURSIVE ImportEntities(_, _, _)
ImportEntities(items, k, kg) ==
    IF k > Len(items) THEN [err |-> "none", kg |-> kg]
    ELSE IF ~(EntityDictKeys \subseteq DOMAIN items[k]) THEN [err |-> "KeyError", kg |-> kg]
    ELSE LET entity == EntityFromDict(items[k])
         IN ImportEntities(items, k + 1,
                [kg EXCEPT !.entities = DictSet(@, entity),
                           !.graph = add_node(@, entity.id, EntityToDict(entity))])

\* the test that guards graph.add_edge in import_from_dict
ImportEdgeGuard(es, rel) == rel.source_id \in Keys(es) /\ rel.target_id \in Keys(es)

\* the "Import relationships" loop of import_from_dict from item k on
RECURSIVE ImportRelationships(_, _, _)
ImportRelationships(items, k, kg) ==
    IF k > Len(items) THEN [err |-> "none", kg |-> kg]
    ELSE IF ~(RelDictKeys \subseteq DOMAIN items[k]) THEN [err |-> "KeyError", kg |-> kg]
    ELSE LET rel == RelFromDict(items[k])
             appended == [kg EXCEPT !.relationships = Append(@, rel)]
         IN ImportRelationships(items, k + 1,
                IF ImportEdgeGuard(kg.entities, rel)
                THEN [appended EXCEPT !.graph = add_edge(@, rel.source_id, rel.target_id,
                                                          RelToDict(rel))]
                ELSE appended)

\* KnowledgeGraph.import_from_dict: clears the instance, then reads the snapshot
ImportFromDictOp(data) ==
    LET es == ImportEntities(Get(data, "entities", <<>>), 1, EmptyKG)
    IN IF es.err # "none" THEN [err |-> es.err, kg |-> es.kg, val |-> None]
       ELSE LET rs == ImportRelationships(Get(data, "relationships", <<>>), 1, es.kg)
            IN [err |-> rs.err, kg |-> rs.kg, val |-> None]

\* KnowledgeGraph.load_from_file; file is what the path names: whether it
\* exists, its suffix, and the document json.load or pickle.load reads from it
LoadFromFileOp(kg, file) ==
    IF ~file.exists THEN [err |-> "KnowledgeGraphError", kg |-> kg, val |-> None]
    ELSE IF Lower(file.suffix) \in {<<".", "j", "s", "o", "n">>, <<".", "p", "k", "l">>}
    THEN ImportFromDictOp(file.data)
    ELSE [err |-> "KnowledgeGraphError", kg |-> kg, val |-> None]

----------------------------------------------------------------------------
(* Text extraction and the embedding index (vector_embedding.py). A text   *)
(* is the sequence of its tokens, a token a sequence of characters. The    *)
(* stemmer and the TF-IDF weighting belong to libraries: the stemmer is    *)
(* taken to strip a plural "s", and a vector holds for every term of the   *)
(* vocabulary the number of its occurrences in the text.                   *)

\* the characters of the ids and types of the model
Chars(s) ==
    CASE s = "a" -> <<"a">> [] s = "b" -> <<"b">> [] s = "c" -> <<"c">>
      [] s = "B" -> <<"B">>
      [] s = "person" -> <<"p", "e", "r", "s", "o", "n">>
      [] s = "organization" ->
            <<"o", "r", "g", "a", "n", "i", "z", "a", "t", "i", "o", "n">>
      [] s = "project" -> <<"p", "r", "o", "j", "e", "c", "t">>
      [] s = "unknown" -> <<"u", "n", "k", "n", "o", "w", "n">>
      [] OTHER -> <<>>

\* the characters str.isalpha accepts, among those of lower-cased texts
Letters ==
    {"a", "b", "c", "d", "e", "f", "g", "h", "i", "j", "k", "l", "m", "n", "o", "p",
     "q", "r", "s", "t", "u", "v", "w", "x", "y", "z"}

\* word_tokenize: words end at a blank; '@' is a token of its own
RECURSIVE Tokenize(_, _, _)
Tokenize(s, i, cur) ==
    LET flush == IF cur = <<>> THEN <<>> ELSE <<cur>>
    IN IF i > Len(s) THEN flush
       ELSE IF s[i] = " " THEN flush \o Tokenize(s, i + 1, <<>>)
       ELSE IF s[i] = "@" THEN flush \o << <<"@">> >> \o Tokenize(s, i + 1, <<>>)
       ELSE Tokenize(s, i + 1, Append(cur, s[i]))

\* TextPreprocessor.stop_words, the words of the list the model can spell
StopWords == {<<"a">>, <<"a", "n">>, <<"o", "r">>, <<"o", "n">>}

\* PorterStemmer.stem
Stem(t) ==
    IF Len(t) > 2 /\ t[Len(t)] = "s" /\ t[Len(t) - 1] # "s"
    THEN SubSeq(t, 1, Len(t) - 1) ELSE t

IsAlpha(t) == \A i \in 1..Len(t) : t[i] \in Letters

\* TextPreprocessor.preprocess_text, of a string given by its characters
preprocess_text(chars) ==
    LET tokens == Tokenize(Lower(chars), 1, <<>>)
        kept == SelectSeq(tokens, LAMBDA t : IsAlpha(t) /\ t \notin StopWords)
    IN [i \in 1..Len(kept) |-> Stem(kept[i])]

\* the order in which the attribute maps of the model list their keys
AttributeOrder == <<"name", "department", "assignee", "emails">>

\* the strings one attribute value adds to text_parts
ValueParts(value) ==
    CASE value.tag = "str" -> <<value.v>>
      [] value.tag = "list" ->
            LET strs == SelectSeq(value.v, LAMBDA item : item.tag = "str")
            IN [i \in 1..Len(strs) |-> strs[i].v]
      [] OTHER -> <<>>

\* ' '.join(parts)
RECURSIVE JoinBlank(_, _)
JoinBlank(parts, k) ==
    IF k > Len(parts) THEN <<>>
    ELSE IF k = Len(parts) THEN parts[k]
    ELSE parts[k] \o <<" ">> \o JoinBlank(parts, k + 1)

RECURSIVE AttributeParts(_, _)
AttributeParts(attributes, k) ==
    IF k > Len(AttributeOrder) THEN <<>>
    ELSE (IF AttributeOrder[k] \in DOMAIN attributes
          THEN ValueParts(attributes[AttributeOrder[k]]) ELSE <<>>)
         \o AttributeParts(attributes, k + 1)

\* TextPreprocessor.extract_text_from_entity
extract_text_from_entity(entity_data) ==
    preprocess_text(JoinBlank(
        <<Chars(Get(entity_data, "id", "")), Chars(Get(entity_data, "type", ""))>>
        \o AttributeParts(Get(entity_data, "attributes", EmptyDict), 1), 1))

\* the tokens TfidfVectorizer keeps of a text: two characters or more
SkTokens(text) == SelectSeq(text, LAMBDA t : Len(t) >= 2)

\* the terms of a text under ngram_range=(1, 2), with their positions
TermAt(toks, i, n) == SubSeq(toks, i, i + n - 1)
Terms(text) ==
    LET toks == SkTokens(text)
    IN {TermAt(toks, i, 1) : i \in 1..Len(toks)}
       \cup {TermAt(toks, i, 2) : i \in 1..(Len(toks) - 1)}

\* how often a term occurs in a text
TermCount(text, term) ==
    LET toks == SkTokens(text)
    IN Cardinality({i \in 1..(Len(toks) - Len(term) + 1) : TermAt(toks, i, Len(term)) = term})

\* the vocabulary fit_transform learns from the texts: min_df=1, max_df=0.95;
\* "error" stands for the ValueError of an empty or fully pruned vocabulary
LearnVocabulary(texts) ==
    LET n == Len(texts)
        all == UNION {Terms(texts[i]) : i \in 1..n}
        df(term) == Cardinality({i \in 1..n : term \in Terms(texts[i])})
        kept == {term \in all : 100 * df(term) <= 95 * n}
    IN IF 95 * n < 100 \/ kept = {} THEN [err |-> TRUE, vocabulary |-> {}]
       ELSE [err |-> FALSE, vocabulary |-> kept]

\* vectorizer.transform([text]).toarray().flatten()
Transform(vocabulary, text) == [term \in vocabulary |-> TermCount(text, term)]

\* VectorEmbedder.__init__ with _initialize_vectorizer: an unfitted TfidfVectorizer
EmptyEmbedder ==
    [vectorizer |-> [fitted |-> FALSE, vocabulary |-> {}],
     embeddings |-> <<>>,
     entity_texts |-> <<>>]

\* the first loop of fit_embeddings: the entities with an id and a text, as
\* [id, text] in the order of the list
RECURSIVE FitTexts(_, _)
FitTexts(entity_list, k) ==
    IF k > Len(entity_list) THEN <<>>
    ELSE LET text == extract_text_from_entity(entity_list[k])
         IN (IF HasId(entity_list[k]) /\ text # <<>>
             THEN <<[id |-> entity_list[k].id, text |-> text]>> ELSE <<>>)
            \o FitTexts(entity_list, k + 1)

\* self.entity_texts[entity_id] = text, for every item of FitTexts
CacheTexts(texts, items) ==
    [id \in (DOMAIN texts) \cup Keys(items) |->
        IF id \in Keys(items) THEN Lookup(items, id).text ELSE texts[id]]

\* self.embeddings[entity_id] = vectors[i]
StoreEmbedding(embs, id, vector) == DictSet(embs, [id |-> id, vector |-> vector])

\* the loop "for i, entity_id in enumerate(entity_ids)" of fit_embeddings from item k on
RECURSIVE StoreEmbeddings(_, _, _, _)
StoreEmbeddings(embs, items, vocabulary, k) ==
    IF k > Len(items) THEN embs
    ELSE StoreEmbeddings(
             StoreEmbedding(embs, items[k].id, Transform(vocabulary, items[k].text)),
             items, vocabulary, k + 1)

\* VectorEmbedder.fit_embeddings, on emb = [vectorizer, embeddings, entity_texts]
FitEmbeddingsOp(emb, entity_list) ==
    IF entity_list = <<>> THEN [err |-> "VectorEmbeddingError", emb |-> emb]
    ELSE LET items == FitTexts(entity_list, 1)
             cached == [emb EXCEPT !.entity_texts = CacheTexts(@, items)]
             learnt == LearnVocabulary([i \in 1..Len(items) |-> items[i].text])
         IN IF items = <<>> THEN [err |-> "VectorEmbeddingError", emb |-> cached]
            ELSE IF learnt.err THEN [err |-> "ValueError", emb |-> cached]
            ELSE [err |-> "none",
                  emb |-> [cached EXCEPT
                              !.vectorizer = [fitted |-> TRUE,
                                              vocabulary |-> learnt.vocabulary],
                              !.embeddings = StoreEmbeddings(@, items,
                                                             learnt.vocabulary, 1)]]

\* VectorEmbedder.add_entity_embedding, and update_entity_embedding which calls
\* it: self.vectorizer is set by __init__ and never None, so the branch that
\* fits is never taken; transform of a vectorizer that was never fitted raises,
\* which the method logs and answers with None
AddEntityEmbeddingOp(emb, entity) ==
    LET text == extract_text_from_entity(entity)
    IN IF ~HasId(entity) \/ text = <<>> \/ ~emb.vectorizer.fitted
       THEN [err |-> "none", emb |-> emb, val |-> None]
       ELSE LET embedding == Transform(emb.vectorizer.vocabulary, text)
            IN [err |-> "none",
                emb |-> [emb EXCEPT
                            !.embeddings = StoreEmbedding(@, entity.id, embedding),
                            !.entity_texts = CacheTexts(@, <<[id |-> entity.id,
                                                             text |-> text]>>)],
                val |-> embedding]

\* VectorEmbedder.remove_entity_embedding
RemoveEntityEmbeddingOp(emb, entity_id) ==
    [err |-> "none",
     emb |-> [emb EXCEPT
                 !.embeddings = DictDel(@, entity_id),
                 !.entity_texts = [id \in (DOMAIN @) \ {entity_id} |-> @[id]]],
     val |-> None]

\* dot product of two vectors of one vocabulary
RECURSIVE SumOver(_, _, _)
SumOver(S, u, v) ==
    IF S = {} THEN 0
    ELSE LET t == CHOOSE x \in S : TRUE
         IN u[t] * v[t] + SumOver(S \ {t}, u, v)
Dot(u, v) == SumOver(DOMAIN u, u, v)

\* cosine_similarity, squared, as the fraction num/den; 0 for a zero vector
Similarity(q, e) ==
    IF Dot(q, q) = 0 \/ Dot(e, e) = 0 THEN [num |-> 0, den |-> 1]
    ELSE [num |-> Dot(q, e) * Dot(q, e), den |-> Dot(q, q) * Dot(e, e)]

\* a test that lets every similarity pass
AtLeastAlways(sim, tn, td) == TRUE

\* similarity >= threshold, for a threshold tn/td (0.1 is 1/10)
AtLeast(sim, tn, td) == tn <= 0 \/ sim.num * td * td >= tn * tn * sim.den

\* x sorts before y under sort(key=similarity, reverse=True)
Higher(x, y) == x.num * y.den > y.num * x.den

\* list.sort(key=lambda x: x[1], reverse=True): stable, by insertion
RECURSIVE InsertSorted(_, _)
InsertSorted(sorted, item) ==
    IF sorted = <<>> THEN <<item>>
    ELSE IF Higher(item.similarity, sorted[Len(sorted)].similarity)
         THEN Append(InsertSorted(SubSeq(sorted, 1, Len(sorted) - 1), item),
                     sorted[Len(sorted)])
         ELSE Append(sorted, item)

RECURSIVE SortBySimilarity(_, _)
SortBySimilarity(items, k) ==
    IF k = 0 THEN <<>>
    ELSE InsertSorted(SortBySimilarity(items, k - 1), items[k])

\* the loop and the sort of semantic_search over the embeddings embs, for a query
\* vector q: a vector of another dimension raises, which the method turns into []
RankEmbeddings(embs, q, top_k, tn, td) ==
    IF \E i \in 1..Len(embs) : DOMAIN embs[i].vector # DOMAIN q THEN <<>>
    ELSE LET scored == [i \in 1..Len(embs) |->
                           [id |-> embs[i].id, similarity |-> Similarity(q, embs[i].vector)]]
             passing == SelectSeq(scored, LAMBDA x : AtLeast(x.similarity, tn, td))
             ranked == SortBySimilarity(passing, Len(passing))
         IN SubSeq(ranked, 1, IF top_k < Len(ranked) THEN top_k ELSE Len(ranked))

\* VectorEmbedder.semantic_search
semantic_search(emb, query, top_k, tn, td) ==
    IF emb.embeddings = <<>> THEN <<>>
    ELSE IF preprocess_text(query) = <<>> THEN <<>>
    ELSE IF ~emb.vectorizer.fitted THEN <<>>
    ELSE RankEmbeddings(emb.embeddings,
                        Transform(emb.vectorizer.vocabulary, preprocess_text(query)),
                        top_k, tn, td)

\* SemanticSearchEngine.search on the ranking semantic_search returned; entity_type
\* is "" for None; texts is embedder.entity_texts
TypeFilter(ranked, entity_type) ==
    IF entity_type = "" THEN ranked
    ELSE SelectSeq(ranked, LAMBDA x : Contains(Chars(entity_type), Lower(Chars(x.id))))

search(ranked, texts, query, entity_type, top_k) ==
    LET filtered == TypeFilter(ranked, entity_type)
        results == SubSeq(filtered, 1, IF top_k < Len(filtered) THEN top_k ELSE Len(filtered))
    IN [i \in 1..Len(results) |->
           [entity_id |-> results[i].id,
            similarity_score |-> results[i].similarity,
            query |-> query,
            entity_text |-> IF results[i].id \in DOMAIN texts
                            THEN texts[results[i].id] ELSE <<>>]]

\* ProgressDialog: before there is one; __init__ (grab_set); cancel(); close()
NoDialog == [open |-> FALSE, grab |-> FALSE, cancelled |-> FALSE]
OpenDialog == [open |-> TRUE, grab |-> TRUE, cancelled |-> FALSE]
CancelDialog(d) == [open |-> FALSE, grab |-> FALSE, cancelled |-> TRUE]
CloseDialog(d) == [d EXCEPT !.open = FALSE, !.grab = FALSE]

----------------------------------------------------------------------------
(* Inputs of the calls *)

Ids == {"a", "b", "c"}

\* entity_data records handed to add_entity: two persons of one department, an
\* organization whose name the department holds, a second record with the id "a"
\* that has neither type nor attributes, and a record without id
PersonA ==
    [id |-> "a", type |-> "person",
     attributes |-> [name |-> Str(<<"A", "l">>), department |-> Str(<<"A", "c", " ", "E">>)]]
BareA == [id |-> "a"]
PersonB ==
    [id |-> "b", type |-> "person",
     attributes |-> [name |-> Str(<<"B", "o">>), department |-> Str(<<"a", "c", " ", "e">>)]]
OrgC ==
    [id |-> "c", type |-> "organization", attributes |-> [name |-> Str(<<"A", "C">>)]]
NoId == [type |-> "person", attributes |-> [name |-> Str(<<"B", "o">>)]]

EntityData == {PersonA, BareA, PersonB, OrgC, NoId}

\* new_attributes handed to update_entity
UpdateData == {[department |-> Str(<<"R", "d">>)]}

\* <<source_id, target_id, relation_type>> handed to add_relationship by a caller
RelationshipData == {<<"a", "b", "knows">>, <<"b", "c", "knows">>, <<"c", "a", "knows">>}

\* snapshots handed to import_from_dict: a well-formed one, one whose relationship
\* names an entity the snapshot does not hold, one with an entity record that lacks
\* 'type', and an empty document
SnapEntityA == EntityToDict(Entity("a", "person", PersonA.attributes, 0))
SnapEntityB == EntityToDict(Entity("b", "person", PersonB.attributes, 0))
SnapRelAB == RelToDict(Relationship("a", "b", "knows", None, 10, 0))

SnapGood == [entities |-> <<SnapEntityA, SnapEntityB>>, relationships |-> <<SnapRelAB>>]
SnapDangling == [entities |-> <<SnapEntityA>>, relationships |-> <<SnapRelAB>>]
SnapNoType ==
    [entities |-> <<SnapEntityA,
                    [id |-> "b", attributes |-> EmptyDict,
                     created_at |-> isoformat(0), updated_at |-> isoformat(0)]>>,
     relationships |-> <<>>]
SnapEmpty == EmptyDict

Snapshots == {SnapGood, SnapDangling, SnapNoType, SnapEmpty}

----------------------------------------------------------------------------
(* The calls of a single thread on one KnowledgeGraph *)

KG == [entities |-> entities, relationships |-> relationships, graph |-> graph]

SetKG(kg) ==
    /\ entities' = kg.entities
    /\ relationships' = kg.relationships
    /\ graph' = kg.graph

\* what the caller sees of a call: the call, its arguments, the exception, the value
Returned(op, args, r) == [op |-> op, args |-> args, err |-> r.err, val |-> r.val]

\* VectorEmbedder.__init__, and no background run
InitRest ==
    /\ vectorizer = EmptyEmbedder.vectorizer
    /\ embeddings = EmptyEmbedder.embeddings
    /\ entity_texts = EmptyEmbedder.entity_texts
    /\ dialog = NoDialog
    /\ worker = [pc |-> "none"]
    /\ gui = [pc |-> "idle"]

Init ==
    /\ entities = EmptyKG.entities
    /\ relationships = EmptyKG.relationships
    /\ graph = EmptyKG.graph
    /\ clock = 0
    /\ ret = [op |-> "init", args |-> <<>>, err |-> "none", val |-> None]
    /\ InitRest

\* the wall clock advances
Tick ==
    /\ clock < MaxClock
    /\ clock' = clock + 1
    /\ UNCHANGED <<entities, relationships, graph, ret, embvars, threadvars>>

add_entity(entity_data) ==
    LET r == AddEntityOp(KG, entity_data, clock)
    IN /\ SetKG(r.kg)
       /\ ret' = Returned("add_entity", <<Get(entity_data, "id", "")>>, r)
       /\ UNCHANGED <<clock, embvars, threadvars>>

update_entity(entity_id, new_attributes) ==
    LET r == UpdateEntityOp(KG, entity_id, new_attributes, clock)
    IN /\ SetKG(r.kg)
       /\ ret' = Returned("update_entity", <<entity_id, new_attributes>>, r)
       /\ UNCHANGED <<clock, embvars, threadvars>>

remove_entity(entity_id) ==
    LET r == RemoveEntityOp(KG, entity_id)
    IN /\ SetKG(r.kg)
       /\ ret' = Returned("remove_entity", <<entity_id>>, r)
       /\ UNCHANGED <<clock, embvars, threadvars>>

add_relationship(source_id, target_id, relation_type) ==
    LET r == AddRelationshipOp(KG, source_id, target_id, relation_type, None, 10, clock)
    IN /\ Len(r.kg.relationships) <= MaxRels
       /\ SetKG(r.kg)
       /\ ret' = Returned("add_relationship", <<source_id, target_id, relation_type>>, r)
       /\ UNCHANGED <<clock, embvars, threadvars>>

auto_detect_relationships ==
    LET r == AutoDetectOp(KG, clock)
    IN /\ Len(r.kg.relationships) <= MaxRels
       /\ SetKG(r.kg)
       /\ ret' = Returned("auto_detect_relationships", <<>>, r)
       /\ UNCHANGED <<clock, embvars, threadvars>>

import_from_dict(data) ==
    LET r == ImportFromDictOp(data)
    IN /\ SetKG(r.kg)
       /\ ret' = Returned("import_from_dict", <<>>, r)
       /\ UNCHANGED <<clock, embvars, threadvars>>

\* export_to_dict on this instance, import_from_dict of the result on a fresh
\* KnowledgeGraph; val is the fresh instance afterwards
export_import ==
    LET r == ImportFromDictOp(export_to_dict(KG, clock))
    IN /\ ret' = [op |-> "export_import", args |-> <<>>, err |-> r.err, val |-> r.kg]
       /\ UNCHANGED <<entities, relationships, graph, clock, embvars, threadvars>>

\* the calls that change the graph, and the round trip through a snapshot
NextCore ==
    \/ \E d \in EntityData : add_entity(d)
    \/ \E id \in Ids, a \in UpdateData : update_entity(id, a)
    \/ \E id \in Ids : remove_entity(id)
    \/ \E c \in RelationshipData : add_relationship(c[1], c[2], c[3])
    \/ auto_detect_relationships
    \/ export_import

Next ==
    \/ NextCore
    \/ \E data \in Snapshots : import_from_dict(data)

\* every call, snapshots loaded from outside included, all within one tick of the clock
Spec == Init /\ [][Next]_vars

\* the calls without import_from_dict
SpecNoImport == Init /\ [][NextCore]_vars

\* the entity store alone, with the wall clock advancing between calls
NextClock ==
    \/ Tick
    \/ \E d \in EntityData : add_entity(d)
    \/ \E id \in Ids, a \in UpdateData : update_entity(id, a)
    \/ \E id \in Ids : remove_entity(id)

SpecClock == Init /\ [][NextClock]_vars

----------------------------------------------------------------------------
(* Queries on a graph. The graph is built by the calls above: the three    *)
(* entities are added, then up to MaxQueryRels relationships between any   *)
(* two of them, a relationship of an entity to itself included.            *)

QueryRelCalls == {<<s, t>> : s \in Ids, t \in Ids}

RECURSIVE AddEntities(_, _, _)
AddEntities(kg, data, k) ==
    IF k > Len(data) THEN kg
    ELSE AddEntities(AddEntityOp(kg, data[k], 0).kg, data, k + 1)

RECURSIVE AddRelationships(_, _, _)
AddRelationships(kg, calls, k) ==
    IF k > Len(calls) THEN kg
    ELSE AddRelationships(
             AddRelationshipOp(kg, calls[k][1], calls[k][2], "knows", None, 10, 0).kg,
             calls, k + 1)

InitQuery ==
    /\ \E n \in 0..MaxQueryRels : \E calls \in [1..n -> QueryRelCalls] :
          LET kg == AddRelationships(AddEntities(EmptyKG, <<PersonA, PersonB, OrgC>>, 1),
                                     calls, 1)
          IN /\ entities = kg.entities
             /\ relationships = kg.relationships
             /\ graph = kg.graph
    /\ clock = 0
    /\ ret = [op |-> "init", args |-> <<>>, err |-> "none", val |-> None]
    /\ InitRest

\* get_connected_entities(entity_id, max_depth)
connected_entities(entity_id, max_depth) ==
    /\ ret' = [op |-> "get_connected_entities", args |-> <<entity_id, max_depth>>,
               err |-> "none", val |-> get_connected_entities(KG, entity_id, max_depth)]
    /\ UNCHANGED <<entities, relationships, graph, clock, embvars, threadvars>>

\* get_graph_stats()
graph_stats ==
    /\ ret' = [op |-> "get_graph_stats", args |-> <<>>, err |-> "none",
               val |-> get_graph_stats(KG)]
    /\ UNCHANGED <<entities, relationships, graph, clock, embvars, threadvars>>

NextQuery ==
    \/ \E id \in Ids, depth \in 1..MaxDepth : connected_entities(id, depth)
    \/ graph_stats

SpecQuery == InitQuery /\ [][NextQuery]_vars

\* entity_data whose attributes hold values of other kinds than the rules
\* expect: a number for department, null for name, a list for assignee, a string
\* for emails, a list with a number for emails
PersonNumDept ==
    [id |-> "a", type |-> "person",
     attributes |-> [name |-> Str(<<"A", "l">>), department |-> Num(7)]]
OrgNullName == [id |-> "c", type |-> "organization", attributes |-> [name |-> None]]
ProjectListAssignee ==
    [id |-> "c", type |-> "project",
     attributes |-> [assignee |-> List(<<Str(<<"A", "l">>)>>)]]
PersonStrEmails ==
    [id |-> "b", type |-> "person", attributes |-> [emails |-> Str(<<"x", "@", "y">>)]]
PersonNumEmails ==
    [id |-> "a", type |-> "person", attributes |-> [emails |-> List(<<Num(1)>>)]]

ShapeData ==
    {PersonA, PersonB, OrgC, PersonNumDept, OrgNullName, ProjectListAssignee,
     PersonStrEmails, PersonNumEmails}

\* entities of any shape are added and the scan runs over them
NextShapes ==
    \/ \E entity_data \in ShapeData : add_entity(entity_data)
    \/ auto_detect_relationships

SpecShapes == Init /\ [][NextShapes]_vars

\* the entity store with one relationship, and the wall clock advancing
MaxUpdateRels == 1

NextUpdate ==
    \/ Tick
    \/ \E entity_data \in {PersonA, BareA, PersonB} : add_entity(entity_data)
    \/ \E id \in Ids, a \in UpdateData : update_entity(id, a)
    \/ \E id \in Ids : remove_entity(id)
    \/ /\ Len(relationships) < MaxUpdateRels
       /\ add_relationship("a", "b", "knows")

SpecUpdate == Init /\ [][NextUpdate]_vars

----------------------------------------------------------------------------
(* The scan over persons and a project *)

\* entity_data of a project assigned to "Al, Bo", of a person without a name
\* and of a person whose name is empty
ProjectC ==
    [id |-> "c", type |-> "project",
     attributes |-> [name |-> Str(<<"R", "d">>),
                     assignee |-> Str(<<"A", "L", ",", " ", "B", "o">>)]]
NamelessB == [id |-> "b", type |-> "person", attributes |-> EmptyDict]
EmptyNameB == [id |-> "b", type |-> "person", attributes |-> [name |-> EmptyStr]]

ProjectData == {PersonA, NamelessB, EmptyNameB, ProjectC}

NextProject ==
    \/ \E entity_data \in ProjectData : add_entity(entity_data)
    \/ \E id \in Ids : remove_entity(id)
    \/ auto_detect_relationships

SpecProject == Init /\ [][NextProject]_vars

----------------------------------------------------------------------------
(* The store with its relationship queries: entities and relationships     *)
(* come and go, a snapshot is imported, and find_relationships and         *)
(* get_graph_stats read the result.                                        *)

MaxFindRels == 2

\* <<source_id, target_id, relation_type>> handed to add_relationship
FindRelationshipData ==
    {<<"a", "b", "knows">>, <<"b", "a", "likes">>, <<"a", "a", "knows">>,
     <<"b", "c", "knows">>}

\* relation_type handed to find_relationships; "" is None
FindTypes == {"", "knows"}

find_relationships(entity_id, relation_type) ==
    /\ ret' = Returned("find_relationships", <<entity_id, relation_type>>,
                       FindRelationshipsOp(KG, entity_id, relation_type))
    /\ UNCHANGED <<entities, relationships, graph, clock, embvars, threadvars>>

NextFind ==
    \/ \E entity_data \in {PersonA, PersonB, OrgC} : add_entity(entity_data)
    \/ \E id \in Ids : remove_entity(id)
    \/ \E call \in FindRelationshipData :
          /\ Len(relationships) < MaxFindRels
          /\ add_relationship(call[1], call[2], call[3])
    \/ \E data \in {SnapGood, SnapDangling} : import_from_dict(data)
    \/ \E id \in Ids, relation_type \in FindTypes : find_relationships(id, relation_type)
    \/ graph_stats

SpecFind == Init /\ [][NextFind]_vars

----------------------------------------------------------------------------
(* The store and the files it is loaded from *)

MaxLoadRels == 1

\* the files load_from_file is pointed at: a missing one, one with a suffix
\* that is neither .json nor .pkl, well-formed snapshots, and snapshots with an
\* entity record that lacks 'type'
LoadFiles ==
    {[exists |-> FALSE, suffix |-> <<".", "j", "s", "o", "n">>, data |-> SnapGood],
     [exists |-> TRUE, suffix |-> <<".", "t", "x", "t">>, data |-> SnapGood],
     [exists |-> TRUE, suffix |-> <<".", "J", "S", "O", "N">>, data |-> SnapGood],
     [exists |-> TRUE, suffix |-> <<".", "j", "s", "o", "n">>, data |-> SnapNoType],
     [exists |-> TRUE, suffix |-> <<".", "p", "k", "l">>, data |-> SnapNoType]}

load_from_file(file) ==
    LET r == LoadFromFileOp(KG, file)
    IN /\ SetKG(r.kg)
       /\ ret' = Returned("load_from_file", <<file>>, r)
       /\ UNCHANGED <<clock, embvars, threadvars>>

NextLoad ==
    \/ \E entity_data \in {PersonA, PersonB, OrgC} : add_entity(entity_data)
    \/ \E id \in Ids : remove_entity(id)
    \/ /\ Len(relationships) < MaxLoadRels
       /\ \E call \in RelationshipData : add_relationship(call[1], call[2], call[3])
    \/ \E file \in LoadFiles : load_from_file(file)

SpecLoad == Init /\ [][NextLoad]_vars

----------------------------------------------------------------------------
(* The calls of a single thread on one VectorEmbedder *)

\* entity lists handed to fit_embeddings: two persons; the same with an
\* organization; a list whose first entity has no text; lists without any text
FitLists ==
    {<<PersonA, PersonB>>, <<PersonA, PersonB, OrgC>>, <<BareA, PersonB, OrgC>>,
     <<BareA>>, <<>>}

\* entities handed to add_entity_embedding and update_entity_embedding
EmbedData == {PersonA, OrgC, BareA, NoId}

\* the VectorEmbedder instance
Embedder == [vectorizer |-> vectorizer, embeddings |-> embeddings,
             entity_texts |-> entity_texts]

SetEmbedder(emb) ==
    /\ vectorizer' = emb.vectorizer
    /\ embeddings' = emb.embeddings
    /\ entity_texts' = emb.entity_texts

fit_embeddings(entity_list) ==
    LET r == FitEmbeddingsOp(Embedder, entity_list)
    IN /\ SetEmbedder(r.emb)
       /\ ret' = [op |-> "fit_embeddings", args |-> <<entity_list>>,
                  err |-> r.err, val |-> None]
       /\ UNCHANGED <<entities, relationships, graph, clock, threadvars>>

add_entity_embedding(entity) ==
    LET r == AddEntityEmbeddingOp(Embedder, entity)
    IN /\ SetEmbedder(r.emb)
       /\ ret' = [op |-> "add_entity_embedding", args |-> <<entity>>,
                  err |-> r.err, val |-> r.val]
       /\ UNCHANGED <<entities, relationships, graph, clock, threadvars>>

update_entity_embedding(entity) ==
    LET r == AddEntityEmbeddingOp(Embedder, entity)
    IN /\ SetEmbedder(r.emb)
       /\ ret' = [op |-> "update_entity_embedding", args |-> <<entity>>,
                  err |-> r.err, val |-> r.val]
       /\ UNCHANGED <<entities, relationships, graph, clock, threadvars>>

remove_entity_embedding(entity_id) ==
    LET r == RemoveEntityEmbeddingOp(Embedder, entity_id)
    IN /\ SetEmbedder(r.emb)
       /\ ret' = [op |-> "remove_entity_embedding", args |-> <<entity_id>>,
                  err |-> r.err, val |-> r.val]
       /\ UNCHANGED <<entities, relationships, graph, clock, threadvars>>

NextEmbed ==
    \/ \E entity_list \in FitLists : fit_embeddings(entity_list)
    \/ \E entity \in EmbedData : add_entity_embedding(entity)
    \/ \E entity \in EmbedData : update_entity_embedding(entity)
    \/ \E id \in Ids : remove_entity_embedding(id)

SpecEmbed == Init /\ [][NextEmbed]_vars

----------------------------------------------------------------------------
(* The searches of a single thread on one VectorEmbedder *)

\* SemanticSearchEngine.search with the call of embedder.semantic_search it opens
\* with; the threshold is the fraction tn/td
SearchOp(emb, query, entity_type, top_k, tn, td) ==
    search(semantic_search(emb, query, top_k * 2, tn, td),
           emb.entity_texts, query, entity_type, top_k)

MaxTopK == 2

\* a person whose id is written with a capital
UpperB == [id |-> "B", type |-> "person", attributes |-> PersonB.attributes]

\* entity lists handed to fit_embeddings before the searches
SearchFitLists ==
    {<<PersonA, PersonB, OrgC>>, <<PersonA, UpperB, OrgC>>, <<PersonA, PersonB>>}

\* the queries: "person al organization" and "Bo"
SearchQueries ==
    {JoinBlank(<<Chars("person"), <<"a", "l">>, Chars("organization")>>, 1),
     <<"B", "o">>}

\* the thresholds, as <<numerator, denominator>>: the default 0.1, and 1.1
Thresholds == {<<1, 10>>, <<11, 10>>}

\* the entity_type of search: "" is None
SearchTypes == {"", "b", "B"}

call_semantic_search(query, top_k, threshold) ==
    /\ ret' = [op |-> "semantic_search", args |-> <<query, top_k, threshold>>,
               err |-> "none",
               val |-> semantic_search(Embedder, query, top_k,
                                       threshold[1], threshold[2])]
    /\ UNCHANGED <<entities, relationships, graph, clock, embvars, threadvars>>

call_search(query, entity_type, top_k, threshold) ==
    /\ ret' = [op |-> "search", args |-> <<query, entity_type, top_k, threshold>>,
               err |-> "none",
               val |-> SearchOp(Embedder, query, entity_type, top_k,
                                threshold[1], threshold[2])]
    /\ UNCHANGED <<entities, relationships, graph, clock, embvars, threadvars>>

NextSearch ==
    \/ \E entity_list \in SearchFitLists : fit_embeddings(entity_list)
    \/ \E entity \in {PersonB, UpperB} : add_entity_embedding(entity)
    \/ \E id \in {"a", "b"} : remove_entity_embedding(id)
    \/ \E query \in SearchQueries, top_k \in 0..MaxTopK, threshold \in Thresholds :
          call_semantic_search(query, top_k, threshold)
    \/ \E query \in SearchQueries, entity_type \in SearchTypes, top_k \in 0..MaxTopK :
          call_search(query, entity_type, top_k, <<1, 10>>)

SpecSearch == Init /\ [][NextSearch]_vars

----------------------------------------------------------------------------
(* The application (knowledge_base_gui.py): the Tk main thread runs the    *)
(* handlers of the main window, the thread process_json_file starts runs   *)
(* _process_file_background. Both work on the one KnowledgeGraph and the   *)
(* one VectorEmbedder; the code takes no lock. The dialog of the           *)
(* background run holds the input grab, so the main window takes no input  *)
(* until Cancel closes the dialog; the run goes on after that up to its    *)
(* next test of the flag or its next use of the dialog. A step of a       *)
(* thread runs from one access to shared state the claims are about to    *)
(* the next: add_entity, get_graph_stats and a whole scan of the main     *)
(* thread are taken in one step each.                                      *)

MaxThreadRels == 6

\* search_results_limit, the default of max_results_var
max_results == 20

\* what the user types into the search entry
Queries == {<<"A", "l">>, <<"B", "o">>}

\* what JSONProcessor.process_file returns for the selected file
Files == {<<OrgC>>, <<NoId, OrgC>>}

\* the entities a knowledge graph file held that load_knowledge_graph loaded
LoadedSnapshot == [entities |-> <<SnapEntityA, SnapEntityB>>, relationships |-> <<>>]

\* [entity.to_dict() for entity in self.knowledge_graph.entities.values()]
EntitiesList(es) == [i \in 1..Len(es) |-> EntityToDict(es[i])]

\* the calls of add_relationship that a scan over entities_list makes, in order:
\* every proposal of every pair, up to a pair whose rules raise
RECURSIVE ScanWork(_, _, _)
ScanWork(entities_list, pairs, k) ==
    IF k > Len(pairs) THEN [err |-> FALSE, items |-> <<>>]
    ELSE LET entity1 == entities_list[pairs[k][1]]
             entity2 == entities_list[pairs[k][2]]
             d == detect_relationship_between(entity1, entity2)
             rest == ScanWork(entities_list, pairs, k + 1)
         IN IF d.err THEN [err |-> TRUE, items |-> <<>>]
            ELSE [err |-> rest.err,
                  items |-> [j \in 1..Len(d.rels) |->
                                [source_id |-> entity1.id, target_id |-> entity2.id,
                                 type |-> d.rels[j][1], confidence |-> d.rels[j][2]]]
                            \o rest.items]

\* the state when process_json_file has started the thread: a graph file is
\* loaded and its entities are embedded (load_knowledge_graph), the file to
\* process is chosen
InitThreads ==
    /\ LET kg == ImportFromDictOp(LoadedSnapshot).kg
           emb == FitEmbeddingsOp(EmptyEmbedder, EntitiesList(kg.entities)).emb
       IN /\ entities = kg.entities
          /\ relationships = kg.relationships
          /\ graph = kg.graph
          /\ vectorizer = emb.vectorizer
          /\ embeddings = emb.embeddings
          /\ entity_texts = emb.entity_texts
    /\ clock = 0
    /\ ret = [op |-> "init", args |-> <<>>, err |-> "none", val |-> None]
    /\ dialog = NoDialog
    /\ \E file \in Files :
          worker = [pc |-> "start", entities |-> file, i |-> 1,
                    work |-> <<>>, scan_err |-> FALSE, k |-> 1,
                    relationship |-> None, relationship_count |-> 0,
                    entities_list |-> <<>>, before |-> None, items |-> <<>>]
    /\ gui = [pc |-> "idle", after |-> <<>>, query |-> <<>>, query_vector |-> <<>>,
              seen |-> None, issued |-> "none"]

\* the except and finally clauses of _process_file_background
Raised(w) == [w EXCEPT !.pc = "done"]
AfterError(g) == [g EXCEPT !.after = @ \o <<"showerror", "close">>]

\* progress_dialog = ProgressDialog(self.root, ...)
worker_open_dialog ==
    /\ worker.pc = "start"
    /\ dialog' = OpenDialog
    /\ worker' = [worker EXCEPT !.pc = "load"]
    /\ UNCHANGED <<kgvars, embvars, gui>>

\* update_text, process_file, the test of the flag and update_text again; on a
\* dialog that is destroyed update_text raises
worker_load_file ==
    /\ worker.pc = "load"
    /\ IF ~dialog.open
       THEN worker' = Raised(worker) /\ gui' = AfterError(gui)
       ELSE worker' = [worker EXCEPT !.pc = "add"] /\ UNCHANGED gui
    /\ UNCHANGED <<kgvars, embvars, dialog>>

\* one turn of "for entity in entities": the test of the flag, add_entity, its
\* exception logged; after the loop the test of line 655, update_text and the
\* start of auto_detect_relationships with its copy of the entities
worker_add_entity ==
    /\ worker.pc = "add"
    /\ IF dialog.cancelled
       THEN /\ worker' = [worker EXCEPT !.pc = "done"]
            /\ gui' = [gui EXCEPT !.after = Append(@, "close")]
            /\ UNCHANGED kgvars
       ELSE IF worker.i <= Len(worker.entities)
       THEN LET r == AddEntityOp(KG, worker.entities[worker.i], clock)
            IN /\ SetKG(r.kg)
               /\ worker' = [worker EXCEPT !.i = @ + 1]
               /\ UNCHANGED <<clock, ret, gui>>
       ELSE LET scan == ScanWork(entities, PairList(Len(entities)), 1)
            IN /\ worker' = [worker EXCEPT !.pc = "append", !.work = scan.items,
                                           !.scan_err = scan.err, !.k = 1]
               /\ UNCHANGED <<kgvars, gui>>
    /\ UNCHANGED <<embvars, dialog>>


\* add_relationship called by the scan, up to self.relationships.append; the
\* KnowledgeGraphError of a missing endpoint is swallowed by the scan
worker_append_relationship ==
    /\ worker.pc = "append"
    /\ worker.k <= Len(worker.work)
    /\ LET item == worker.work[worker.k]
       IN IF ~EndpointsPresent(entities, item.source_id, item.target_id)
          THEN /\ worker' = [worker EXCEPT !.k = @ + 1]
               /\ UNCHANGED relationships
          ELSE LET relationship == Relationship(item.source_id, item.target_id,
                                                item.type, None, item.confidence, clock)
               IN /\ relationships' = Append(relationships, relationship)
                  /\ worker' = [worker EXCEPT !.pc = "edge",
                                              !.relationship = relationship]
    /\ UNCHANGED <<entities, graph, clock, ret, embvars, dialog, gui>>

\* the rest of add_relationship: self.graph.add_edge, and detected_count += 1
worker_add_edge ==
    /\ worker.pc = "edge"
    /\ graph' = add_edge(graph, worker.relationship.source_id,
                         worker.relationship.target_id, RelToDict(worker.relationship))
    /\ worker' = [worker EXCEPT !.pc = "append", !.k = @ + 1,
                                !.relationship_count = @ + 1]
    /\ UNCHANGED <<entities, relationships, clock, ret, embvars, dialog, gui>>

\* the scan returns or raises; update_text, entities_list and the call of
\* fit_embeddings
worker_begin_fit ==
    /\ worker.pc = "append"
    /\ worker.k > Len(worker.work)
    /\ IF worker.scan_err \/ ~dialog.open
       THEN worker' = Raised(worker) /\ gui' = AfterError(gui)
       ELSE /\ worker' = [worker EXCEPT !.pc = "fit_texts",
                                        !.entities_list = EntitiesList(entities),
                                        !.before = Embedder]
            /\ UNCHANGED gui
    /\ UNCHANGED <<kgvars, embvars, dialog>>

\* fit_embeddings up to the call of fit_transform: the loop that collects the
\* texts and caches them
worker_fit_texts ==
    /\ worker.pc = "fit_texts"
    /\ LET items == FitTexts(worker.entities_list, 1)
       IN IF worker.entities_list = <<>>
          THEN /\ worker' = Raised(worker) /\ gui' = AfterError(gui)
               /\ UNCHANGED entity_texts
          ELSE /\ entity_texts' = CacheTexts(entity_texts, items)
               /\ IF items = <<>>
                  THEN worker' = Raised(worker) /\ gui' = AfterError(gui)
                  ELSE /\ worker' = [worker EXCEPT !.pc = "fit_transform", !.items = items]
                       /\ UNCHANGED gui
    /\ UNCHANGED <<kgvars, vectorizer, embeddings, dialog>>

\* vectors = self.vectorizer.fit_transform(entity_texts)
worker_fit_transform ==
    /\ worker.pc = "fit_transform"
    /\ LET learnt == LearnVocabulary([i \in 1..Len(worker.items) |-> worker.items[i].text])
       IN IF learnt.err
          THEN /\ worker' = Raised(worker) /\ gui' = AfterError(gui)
               /\ UNCHANGED vectorizer
          ELSE /\ vectorizer' = [fitted |-> TRUE, vocabulary |-> learnt.vocabulary]
               /\ worker' = [worker EXCEPT !.pc = "fit_store", !.k = 1]
               /\ UNCHANGED gui
    /\ UNCHANGED <<kgvars, embeddings, entity_texts, dialog>>

\* one turn of "for i, entity_id in enumerate(entity_ids)"
worker_store_embedding ==
    /\ worker.pc = "fit_store"
    /\ worker.k <= Len(worker.items)
    /\ embeddings' = StoreEmbedding(embeddings, worker.items[worker.k].id,
                                    Transform(vectorizer.vocabulary,
                                              worker.items[worker.k].text))
    /\ worker' = [worker EXCEPT !.k = @ + 1]
    /\ UNCHANGED <<kgvars, vectorizer, entity_texts, dialog, gui>>

\* fit_embeddings returns; root.after(0, _process_complete) and the finally clause
worker_complete ==
    /\ worker.pc = "fit_store"
    /\ worker.k > Len(worker.items)
    /\ worker' = [worker EXCEPT !.pc = "done"]
    /\ gui' = [gui EXCEPT !.after = @ \o <<"process_complete", "close">>]
    /\ UNCHANGED <<kgvars, embvars, dialog>>

\* fit_embeddings is running in the worker at position pc
FitPcs == {"fit_texts", "fit_transform", "fit_store"}

\* the main window takes input and the main thread is in no handler
MainWindowIdle == ~dialog.grab /\ gui.pc = "idle"

\* ProgressDialog.cancel, the command of the dialog's button
cancel ==
    /\ dialog.open
    /\ gui.pc = "idle"
    /\ dialog' = CancelDialog(dialog)
    /\ UNCHANGED <<kgvars, embvars, worker, gui>>

\* a callback a thread queued with root.after(0, ...): _process_complete with its
\* refresh_graph_view, the error box, progress_dialog.close
run_after ==
    /\ gui.pc = "idle"
    /\ gui.after # <<>>
    /\ gui' = [gui EXCEPT !.after = Tail(@)]
    /\ dialog' = IF Head(gui.after) = "close" THEN CloseDialog(dialog) ELSE dialog
    /\ ret' = IF Head(gui.after) = "process_complete"
              THEN [op |-> "refresh_graph_view", args |-> <<>>, err |-> "none",
                    val |-> get_graph_stats(KG)]
              ELSE ret
    /\ UNCHANGED <<entities, relationships, graph, clock, embvars, worker>>

\* KnowledgeBaseGUI.refresh_graph_view: what it displays of get_graph_stats
refresh_graph_view ==
    /\ MainWindowIdle
    /\ ret' = [op |-> "refresh_graph_view", args |-> <<>>, err |-> "none",
               val |-> get_graph_stats(KG)]
    /\ UNCHANGED <<entities, relationships, graph, clock, embvars, threadvars>>

\* KnowledgeBaseGUI.auto_detect_relations: the scan, then refresh_graph_view
auto_detect_relations ==
    /\ MainWindowIdle
    /\ LET r == AutoDetectOp(KG, clock)
       IN /\ Len(r.kg.relationships) <= MaxThreadRels
          /\ SetKG(r.kg)
          /\ ret' = [op |-> "auto_detect_relations", args |-> <<>>, err |-> r.err,
                     val |-> [detected |-> r.val, stats |-> get_graph_stats(r.kg)]]
    /\ UNCHANGED <<clock, embvars, threadvars>>

\* what perform_search shows: the results, with the index the search ran
\* against and the position of the worker when it was issued
Shown(query, results, issued, seen, embs) ==
    [op |-> "perform_search", args |-> <<query>>, err |-> "none",
     val |-> [results |-> results, issued |-> issued,
              vectorizer |-> seen, embeddings |-> embs]]

\* perform_search up to the query vector: semantic_search tests self.embeddings,
\* preprocesses the query and transforms it with self.vectorizer; an empty
\* index, an empty query and a vectorizer that raises give no results
perform_search_transform(query) ==
    /\ MainWindowIdle
    /\ IF embeddings = <<>> \/ preprocess_text(query) = <<>> \/ ~vectorizer.fitted
       THEN /\ ret' = Shown(query, <<>>, worker.pc, vectorizer, <<>>)
            /\ UNCHANGED gui
       ELSE /\ gui' = [gui EXCEPT !.pc = "scan", !.query = query,
                                  !.query_vector = Transform(vectorizer.vocabulary,
                                                             preprocess_text(query)),
                                  !.seen = vectorizer, !.issued = worker.pc]
            /\ UNCHANGED ret
    /\ UNCHANGED <<entities, relationships, graph, clock, embvars, dialog, worker>>

\* the rest of perform_search: the loop of semantic_search over self.embeddings,
\* SemanticSearchEngine.search with top_k = max_results and no type filter
perform_search_scan ==
    /\ gui.pc = "scan"
    /\ LET ranked == RankEmbeddings(embeddings, gui.query_vector, max_results * 2, 1, 10)
       IN ret' = Shown(gui.query,
                       search(ranked, entity_texts, gui.query, "", max_results),
                       gui.issued, gui.seen, embeddings)
    /\ gui' = [gui EXCEPT !.pc = "idle"]
    /\ UNCHANGED <<entities, relationships, graph, clock, embvars, dialog, worker>>

NextThreads ==
    \/ worker_open_dialog
    \/ worker_load_file
    \/ worker_add_entity
    \/ worker_append_relationship
    \/ worker_add_edge
    \/ worker_begin_fit
    \/ worker_fit_texts
    \/ worker_fit_transform
    \/ worker_store_embedding
    \/ worker_complete
    \/ cancel
    \/ run_after
    \/ refresh_graph_view
    \/ auto_detect_relations
    \/ \E query \in Queries : perform_search_transform(query)
    \/ perform_search_scan

SpecThreads == InitThreads /\ [][NextThreads]_vars

----------------------------------------------------------------------------
(* The claims *)

\* the edges of the adjacency index and the relationships of the list, as
\* <<source, target, type>>, and how often each occurs
EdgeTriples(g) == {<<e.u, e.v, e.data.type>> : e \in g.edges}
RelTriples(rels) == {<<rels[i].source_id, rels[i].target_id, rels[i].type>> : i \in 1..Len(rels)}
EdgeCount(g, t) ==
    Cardinality({e \in g.edges : <<e.u, e.v, e.data.type>> = t})
RelCount(rels, t) ==
    Cardinality({i \in 1..Len(rels) :
                    <<rels[i].source_id, rels[i].target_id, rels[i].type>> = t})

\* the step is a call of op: every call writes ret, and only the clock's tick,
\* which is no call, leaves it alone
Called(op) == ret'.op = op /\ clock' = clock

\* C1: add_relationship with a source or target that is no entity of the store
\* raises the not-found error and leaves the relationship list and the adjacency
\* index as they were.
C1_MissingEndpointRejected ==
    [][(Called("add_relationship")
        /\ ~(ret'.args[1] \in Keys(entities) /\ ret'.args[2] \in Keys(entities)))
          => (/\ ret'.err = "NotFound"
              /\ relationships' = relationships
              /\ graph' = graph)]_vars

\* a rejected add_relationship on a graph that holds relationships
C1_Witness ==
    /\ ret.op = "add_relationship"
    /\ ret.err = "NotFound"
    /\ relationships # <<>>

\* C2: in every state the node set of the adjacency index is the key set of the
\* entity map, and the index holds each <<source, target, type>> as often as the
\* relationship list does.
C2_ViewsAgree ==
    /\ DOMAIN graph.nodes = Keys(entities)
    /\ \A t \in EdgeTriples(graph) \cup RelTriples(relationships) :
          EdgeCount(graph, t) = RelCount(relationships, t)

\* C3: a remove_entity(E) that succeeds leaves no relationship and no edge at E,
\* takes E out of the entity map and the index, and keeps every other entity and
\* every relationship that did not touch E, unchanged, in both views.
C3_RemoveCascades ==
    [][\A id \in Ids :
          (Called("remove_entity") /\ ret'.args[1] = id /\ id \in Keys(entities))
          => (/\ ret'.err = "none"
              /\ \A i \in 1..Len(relationships') :
                    relationships'[i].source_id # id /\ relationships'[i].target_id # id
              /\ \A e \in graph'.edges : e.u # id /\ e.v # id
              /\ id \notin Keys(entities')
              /\ id \notin DOMAIN graph'.nodes
              /\ entities' = SelectSeq(entities, LAMBDA x : x.id # id)
              /\ DOMAIN graph'.nodes = (DOMAIN graph.nodes) \ {id}
              /\ \A n \in DOMAIN graph'.nodes : graph'.nodes[n] = graph.nodes[n]
              /\ relationships' =
                    SelectSeq(relationships,
                              LAMBDA r : r.source_id # id /\ r.target_id # id)
              /\ graph'.edges = {e \in graph.edges : e.u # id /\ e.v # id})]_vars

\* an entity was removed and a relationship between two other entities is left
C3_Witness ==
    /\ ret.op = "remove_entity"
    /\ ret.err = "none"
    /\ Len(entities) = 2
    /\ relationships # <<>>

\* C4: an auto_detect_relationships that follows an auto_detect_relationships
\* returns 0 and leaves the relationship list and the adjacency index as they were.
C4_SecondScanAddsNothing ==
    [][(ret.op = "auto_detect_relationships" /\ ret.err = "none"
        /\ Called("auto_detect_relationships") /\ ret'.err = "none")
       => (/\ ret'.val = 0
           /\ relationships' = relationships
           /\ graph' = graph)]_vars

\* C5: add_entity with an id that the store holds raises the duplicate-entity
\* error and leaves the stored entity as it was.
C5_DuplicateRejected ==
    [][(Called("add_entity") /\ ret'.args[1] \in Keys(entities))
          => (/\ ret'.err = "DuplicateEntity"
              /\ entities' = entities)]_vars

\* C6: every relationship of the list has a source and a target that are
\* entities of the store.
C6_EndpointsExist ==
    \A i \in 1..Len(relationships) :
        /\ relationships[i].source_id \in Keys(entities)
        /\ relationships[i].target_id \in Keys(entities)

\* an entity was removed and two relationships are left
C6_Witness ==
    /\ ret.op = "remove_entity"
    /\ ret.err = "none"
    /\ Len(relationships) >= 2

\* C7: exporting the graph and importing the result into a fresh instance gives
\* the same entity count, relationship count and per-type counts, and for every
\* entity id the same type and attribute map.
C7_RoundTrip ==
    ret.op = "export_import" =>
        /\ ret.err = "none"
        /\ get_graph_stats(ret.val).total_entities = get_graph_stats(KG).total_entities
        /\ get_graph_stats(ret.val).total_relationships
              = get_graph_stats(KG).total_relationships
        /\ get_graph_stats(ret.val).entity_types = get_graph_stats(KG).entity_types
        /\ get_graph_stats(ret.val).relationship_types
              = get_graph_stats(KG).relationship_types
        /\ Keys(ret.val.entities) = Keys(entities)
        /\ \A id \in Keys(entities) :
              /\ Lookup(ret.val.entities, id).type = Lookup(entities, id).type
              /\ Lookup(ret.val.entities, id).attributes = Lookup(entities, id).attributes

\* a round trip of a graph with two entities, one of them updated, and a relationship
C7_Witness ==
    /\ ret.op = "export_import"
    /\ Len(entities) >= 2
    /\ relationships # <<>>
    /\ \E i \in 1..Len(entities) : "department" \in DOMAIN entities[i].attributes

\* the nodes at undirected distance at most d from n
RECURSIVE Ball(_, _, _)
Ball(g, n, d) ==
    IF d = 0 THEN {n}
    ELSE LET B == Ball(g, n, d - 1)
         IN B \cup UNION {successors(g, m) \cup predecessors(g, m) : m \in B}

\* C8: for an entity of the store, get_connected_entities(id, maxDepth) is the set
\* of the entities other than id at undirected distance 1..maxDepth from id.
C8_ConnectedWithinDepth ==
    (ret.op = "get_connected_entities" /\ ret.args[1] \in Keys(entities))
    => ret.val = Ball(graph, ret.args[1], ret.args[2]) \ {ret.args[1]}

\* the index a search ran against: the vectorizer it transformed the query
\* with and the vectors it compared the query to
IndexOf(emb) == [vectorizer |-> emb.vectorizer, embeddings |-> emb.embeddings]

\* C9: a search issued from the main thread while fit_embeddings runs in the
\* worker runs against the index as it was before the fit or as it is after the
\* fit: never against the vocabulary of one fit and the vectors of another, and
\* never against a set of vectors that is partly written.
C9_SearchSeesOneFit ==
    (ret.op = "perform_search" /\ ret.val.issued \in FitPcs)
    => IndexOf(ret.val) \in
           {IndexOf(worker.before),
            IndexOf(FitEmbeddingsOp(worker.before, worker.entities_list).emb)}

\* C10: what another thread reads of the store while a scan adds relationships
\* has every relationship in both views or in neither: the statistics the main
\* thread displays count as many relationships in the list as edges in the
\* adjacency index.
C10_AppendAndEdgeAtomic ==
    ret.op = "refresh_graph_view"
    => ret.val.graph_density.num =
           (IF ret.val.total_entities >= 2 THEN ret.val.total_relationships ELSE 0)

\* the relationships of the list rels that touch id and pass the type filter
Touching(rels, id, relation_type) ==
    {rels[i] : i \in {j \in 1..Len(rels) :
                         /\ id \in {rels[j].source_id, rels[j].target_id}
                         /\ (relation_type = "" \/ rels[j].type = relation_type)}}

\* C11: find_relationships(id, type) on an entity of the store returns, read as a
\* set, exactly the relationships of the list whose source or target is id and
\* whose type is the given one when one is given.
C11_FindReturnsTouching ==
    (ret.op = "find_relationships" /\ ret.args[1] \in Keys(entities))
    => {ret.val[i] : i \in 1..Len(ret.val)}
           = Touching(relationships, ret.args[1], ret.args[2])

\* C12: find_relationships(E) called right after remove_entity(E) removed E
\* fails with the not-found error.
C12_FindAfterRemoveFails ==
    [][(/\ ret.op = "remove_entity" /\ ret.err = "none"
        /\ Called("find_relationships")
        /\ ret'.args[1] = ret.args[1])
       => ret'.err = "NotFound"]_vars

\* C13: update_entity(id, partial) on an entity of the store merges: every key
\* of partial has its new value, every other attribute keeps its value, id, type
\* and created_at stay, updated_at does not go back, the node of the adjacency
\* index carries the entity's attributes, and no other entity, node, edge or
\* relationship changes.
C13_UpdateMerges ==
    [][(Called("update_entity") /\ ret'.args[1] \in Keys(entities))
       => LET id == ret'.args[1]
              partial == ret'.args[2]
              old == Lookup(entities, id)
              new == Lookup(entities', id)
          IN /\ ret'.err = "none"
             /\ Keys(entities') = Keys(entities)
             /\ \A k \in DOMAIN partial :
                   k \in DOMAIN new.attributes /\ new.attributes[k] = partial[k]
             /\ \A k \in (DOMAIN old.attributes) \ (DOMAIN partial) :
                   k \in DOMAIN new.attributes /\ new.attributes[k] = old.attributes[k]
             /\ new.id = old.id /\ new.type = old.type
             /\ new.created_at = old.created_at
             /\ new.updated_at >= old.updated_at
             /\ graph'.nodes[id].attributes = new.attributes
             /\ \A other \in Keys(entities) \ {id} :
                   /\ Lookup(entities', other) = Lookup(entities, other)
                   /\ graph'.nodes[other] = graph.nodes[other]
             /\ graph'.edges = graph.edges
             /\ relationships' = relationships]_vars

\* an update of a after the clock moved, that changed department, kept name, and
\* left b and the relationship a -> b as they were
C13_Witness ==
    /\ ret.op = "update_entity" /\ ret.err = "none" /\ ret.args[1] = "a"
    /\ "b" \in Keys(entities)
    /\ relationships # <<>>
    /\ LET a == Lookup(entities, "a")
       IN /\ a.updated_at > a.created_at
          /\ DOMAIN a.attributes = {"name", "department"}
          /\ a.attributes.department = ret.args[2].department
          /\ a.attributes.department # PersonA.attributes.department

\* C14: update_entity and remove_entity called with an id that is no entity of
\* the store fail with the not-found error and leave the entity map, the
\* relationship list and the adjacency index as they were.
C14_UnknownIdRejected ==
    [][((Called("update_entity") \/ Called("remove_entity"))
        /\ ret'.args[1] \notin Keys(entities))
       => (/\ ret'.err = "NotFound"
           /\ entities' = entities
           /\ relationships' = relationships
           /\ graph' = graph)]_vars

\* remove_entity of an unknown id was rejected by a store that holds entities and
\* a relationship
C14_Witness ==
    /\ ret.op = "remove_entity" /\ ret.err = "NotFound"
    /\ ret.args[1] \notin Keys(entities)
    /\ relationships # <<>>

\* how many items of the list found go from source_id to target_id with the type
FoundCount(found, t) ==
    Cardinality({i \in 1..Len(found) :
                    <<found[i].source_id, found[i].target_id, found[i].type>> = t})

C16_EmploymentEitherOrder ==
    (ret.op = "auto_detect_relationships" /\ ret.err = "none")
    => \A i \in 1..Len(entities), j \in 1..Len(entities) :
          (/\ entities[i].type = "person"
           /\ entities[j].type = "organization"
           /\ check_employment_relationship(entities[i], entities[j]) = "true")
          => \E k \in 1..Len(relationships) :
                /\ relationships[k].source_id = entities[i].id
                /\ relationships[k].target_id = entities[j].id
                /\ relationships[k].type = "works_for"
                /\ relationships[k].confidence = 8

\* C17: auto_detect_relationships does not fail over the shape of an attribute:
\* whatever kind of value name, department, assignee or emails hold, the call
\* returns.
C17_ScanSurvivesShapes ==
    ret.op = "auto_detect_relationships" => ret.err = "none"

\* C18: for a store of two entities or more, get_graph_stats reports the density
\* |E| / (|V| * (|V| - 1)), |E| being the number of relationships, parallel ones
\* counted one by one, and |V| the number of entities.
C18_DensityFormula ==
    (ret.op = "get_graph_stats" /\ ret.val.total_entities >= 2)
    => ret.val.graph_density.num * ret.val.total_entities * (ret.val.total_entities - 1)
           = ret.val.total_relationships * ret.val.graph_density.den

\* the entities of a list handed to fit_embeddings that have an id and no text
Textless(entity_list) ==
    {entity_list[i].id : i \in {k \in 1..Len(entity_list) :
                                   /\ HasId(entity_list[k])
                                   /\ extract_text_from_entity(entity_list[k]) = <<>>}}

\* C19: fit_embeddings fails when no entity of the list yields a text, and when
\* it succeeds no entity of the list whose text is empty has a stored vector or
\* a cached text afterwards, whatever the index held before.
C19_EmptyTextExcluded ==
    ret.op = "fit_embeddings"
    => /\ FitTexts(ret.args[1], 1) = <<>> => ret.err # "none"
       /\ ret.err = "none"
              => \A id \in Textless(ret.args[1]) :
                    id \notin Keys(embeddings) /\ id \notin DOMAIN entity_texts

\* C20: in every state of the index all stored vectors have one dimension, the
\* size of the vocabulary of the most recent successful fit.
C20_OneDimension ==
    \A i \in 1..Len(embeddings) :
        Cardinality(DOMAIN embeddings[i].vector) = Cardinality(vectorizer.vocabulary)

\* C21: semantic_search(query, top_k, threshold) with top_k >= 0 returns at most
\* top_k pairs, each with a similarity of at least the threshold, in
\* non-increasing order of similarity, each id having a stored vector; with the
\* threshold 1.1 it returns the empty list in every state of the index.
C21_SearchRanked ==
    ret.op = "semantic_search"
    => LET top_k == ret.args[2]
           threshold == ret.args[3]
           found == ret.val
       IN /\ Len(found) <= top_k
          /\ \A i \in 1..Len(found) :
                /\ found[i].similarity.num * threshold[2] * threshold[2]
                       >= threshold[1] * threshold[1] * found[i].similarity.den
                /\ found[i].id \in Keys(embeddings)
                /\ \A j \in (i + 1)..Len(found) :
                      found[j].similarity.num * found[i].similarity.den
                          <= found[i].similarity.num * found[j].similarity.den
          /\ threshold = <<11, 10>> => found = <<>>

\* a search that three stored vectors pass returned the two best, the first
\* more similar than the second
C21_Witness ==
    /\ ret.op = "semantic_search"
    /\ ret.args[2] = 2
    /\ Len(embeddings) = 3
    /\ Len(semantic_search(Embedder, ret.args[1], 3, 1, 10)) = 3
    /\ Len(ret.val) = 2
    /\ ret.val[1].similarity.num * ret.val[2].similarity.den
           > ret.val[2].similarity.num * ret.val[1].similarity.den

\* C22: add_entity_embedding on an index on which no fit has happened, with an
\* entity that has an id and a non-empty normalized text, fits on that one
\* entity: afterwards the entity has a stored vector and a cached text.
C22_AddFitsUnfittedIndex ==
    [][(/\ Called("add_entity_embedding")
        /\ ~vectorizer.fitted /\ embeddings = <<>> /\ entity_texts = <<>>
        /\ HasId(ret'.args[1])
        /\ extract_text_from_entity(ret'.args[1]) # <<>>)
       => /\ ret'.args[1].id \in Keys(embeddings')
          /\ ret'.args[1].id \in DOMAIN entity_texts']_vars

\* the candidates semantic_search gives the call of search in ret, and those of
\* them whose id contains the entity_type of the call
Candidates == semantic_search(Embedder, ret.args[1], 2 * ret.args[3],
                              ret.args[4][1], ret.args[4][2])
IdContains(entity_type, id) == Contains(Chars(entity_type), Chars(id))
KeptCandidates ==
    IF ret.args[2] = "" THEN Candidates
    ELSE SelectSeq(Candidates, LAMBDA x : IdContains(ret.args[2], x.id))

\* C23: search(query, entity_type, top_k) asks the index for 2*top_k candidates,
\* keeps the candidates whose id contains entity_type as a substring when a type
\* is given, and returns at most top_k of them in the order of the ranking, each
\* with the entity id, its similarity and the cached normalized text of the entity.
C23_SearchFiltersCandidates ==
    ret.op = "search"
    => /\ Len(ret.val) = IF ret.args[3] < Len(KeptCandidates)
                         THEN ret.args[3] ELSE Len(KeptCandidates)
       /\ \A i \in 1..Len(ret.val) :
             /\ ret.val[i].entity_id = KeptCandidates[i].id
             /\ ret.val[i].similarity_score = KeptCandidates[i].similarity
             /\ ret.val[i].entity_id \in DOMAIN entity_texts
             /\ ret.val[i].entity_text = entity_texts[ret.val[i].entity_id]

\* the stored entities that pass the threshold of the call of search in ret, in
\* the order of their similarity, and those of them whose id contains its type
AllRanked == semantic_search(Embedder, ret.args[1], Len(embeddings),
                             ret.args[4][1], ret.args[4][2])
AllMatching == SelectSeq(AllRanked, LAMBDA x : IdContains(ret.args[2], x.id))

\* C29: with an entity_type, search(query, entity_type, top_k) returns the top_k
\* most similar of all stored entities whose id contains entity_type and whose
\* similarity reaches the threshold: an entity among these is missing from the
\* result only when top_k results are returned and none of them is less similar.
C29_FilteredTopK ==
    (ret.op = "search" /\ ret.args[2] # "")
    => \A i \in 1..Len(AllMatching) :
          (\A j \in 1..Len(ret.val) : ret.val[j].entity_id # AllMatching[i].id)
          => /\ Len(ret.val) >= ret.args[3]
             /\ \A j \in 1..Len(ret.val) :
                   ~Higher(AllMatching[i].similarity, ret.val[j].similarity_score)

\* C24: a load_from_file that fails, on a suffix that is neither .json nor .pkl,
\* on a missing file or on a snapshot that lacks a structural field, raises to
\* the caller and leaves the entity map, the relationship list and the
\* adjacency index as they were before the call.
C24_FailedLoadChangesNothing ==
    [][Called("load_from_file")
       => /\ (\/ ~ret'.args[1].exists
              \/ Lower(ret'.args[1].suffix)
                     \notin {<<".", "j", "s", "o", "n">>, <<".", "p", "k", "l">>}
              \/ ret'.args[1].data = SnapNoType)
             => ret'.err # "none"
          /\ ret'.err # "none" => UNCHANGED <<entities, relationships, graph>>]_vars

\* the worker's scan stands between two pairs: before its first call of
\* add_relationship, or before one for another pair than the call before
BetweenPairs ==
    /\ worker.pc = "append"
    /\ worker.k <= Len(worker.work)
    /\ \/ worker.k = 1
       \/ <<worker.work[worker.k].source_id, worker.work[worker.k].target_id>>
             # <<worker.work[worker.k - 1].source_id, worker.work[worker.k - 1].target_id>>

\* the worker is past its scan
ScanOver == worker.pc \in FitPcs \cup {"done"}

\* C25: the scan tests a cancellation flag between pair iterations: with
\* cancellation requested, the scan of the background run does not go on to the
\* next pair, and when it is over every relationship written is in the
\* relationship list and in the adjacency index.
C25_ScanStopsOnCancel ==
    [][/\ (dialog.cancelled /\ BetweenPairs)
          => ~(worker'.pc = "edge" \/ (worker'.pc = "append" /\ worker'.k > worker.k))
       /\ ScanOver' => RelTriples(relationships') \subseteq EdgeTriples(graph')]_vars

\* C26: get_connected_entities(id, maxDepth) never contains id itself, in any
\* graph and for any maxDepth, a graph in which id has a relationship to itself
\* or lies on a cycle included.
C26_OriginExcluded ==
    ret.op = "get_connected_entities" => ret.args[1] \notin ret.val

\* relationships holds an involved_in relationship between the two ids
InvolvedIn(rels, id1, id2) ==
    {k \in 1..Len(rels) :
        /\ rels[k].type = "involved_in"
        /\ {rels[k].source_id, rels[k].target_id} = {id1, id2}}

\* the person has a name that is a non-empty string
Named(person) ==
    /\ "name" \in DOMAIN person.attributes
    /\ person.attributes.name.tag = "str"
    /\ person.attributes.name.v # <<>>

\* C27: when auto_detect_relationships has returned, every person of the store
\* whose name is, case-insensitively, a substring of the assignee of a project of
\* the store has an involved_in relationship with confidence 0.6 with that
\* project, whichever of the two was added first.
C27_InvolvementEitherOrder ==
    (ret.op = "auto_detect_relationships" /\ ret.err = "none")
    => \A i \in 1..Len(entities), j \in 1..Len(entities) :
          (/\ entities[i].type = "person"
           /\ entities[j].type = "project"
           /\ Named(entities[i])
           /\ "assignee" \in DOMAIN entities[j].attributes
           /\ entities[j].attributes.assignee.tag = "str"
           /\ Contains(Lower(entities[i].attributes.name.v),
                       Lower(entities[j].attributes.assignee.v)))
          => \E k \in InvolvedIn(relationships, entities[i].id, entities[j].id) :
                relationships[k].confidence = 6

\* C28: when auto_detect_relationships has returned, a person without a name, or
\* with an empty name, has no involved_in relationship with any project.
C28_NamelessNotInvolved ==
    (ret.op = "auto_detect_relationships" /\ ret.err = "none")
    => \A i \in 1..Len(entities), j \in 1..Len(entities) :
          (/\ entities[i].type = "person"
           /\ entities[j].type = "project"
           /\ ~Named(entities[i]))
          => InvolvedIn(relationships, entities[i].id, entities[j].id) = {}

\* the step runs progress_dialog.close, queued by the finally clause of the
\* run, on a dialog that is closed already
ClosedAgain ==
    /\ gui.pc = "idle" /\ gui.after # <<>> /\ Head(gui.after) = "close"
    /\ gui'.after = Tail(gui.after)
    /\ ~dialog.open

\* the step is the worker's update_text on a dialog that is closed: before
\* process_file, or between the scan and fit_embeddings
UpdateTextOnClosed ==
    /\ ~dialog.open
    /\ \/ worker.pc = "load"
       \/ worker.pc = "append" /\ worker.k > Len(worker.work) /\ ~worker.scan_err
    /\ worker'.pc = "done"

\* C30: in every background run, cancelled ones included, close is executed
\* once on the progress dialog of the run, never on a dialog that is closed
\* already, and once the dialog is closed the worker makes no update_text on it.
C30_DialogClosedOnce ==
    [][~ClosedAgain /\ ~UpdateTextOnClosed]_vars

====
